---- MODULE Spec2Model ----
(***************************************************************************)
(* Model of watchlist_config_generator: the symbology-to-pattern compiler, *)
(* the composite pattern builder, the streaming extractor and the batch    *)
(* orchestrator.                                                           *)
(*                                                                         *)
(* Text is a sequence of one-character strings, so that the patterns the   *)
(* code formats and the lines it searches are values the model can take    *)
(* apart: "F:X\H21" is <<"F",":","X","\\","H","2","1">>.                   *)
(***************************************************************************)
EXTENDS Integers, Sequences, FiniteSets, TLC

VARIABLES
    pc,       \* position of the run
    symbol,   \* the symbol handed to create_specific_instrument_regex
    regex,    \* its outcome
    text,     \* one decoded line of a reference file
    found,    \* outcome of re.search(regex, text)
    symbols,  \* the symbol list handed to the two composite builders
    sid,      \* the source id handed to create_dc_message_level_pattern
    ilp,      \* outcome of create_instrument_level_pattern
    mlp,      \* outcome of create_dc_message_level_pattern
    hits,     \* outcomes of re.search of ilp, of mlp and of each alternative
    mapping,     \* source_symbols_dictionary: source id -> list of symbols
    path,        \* the reference file the batch loop is at
    fault,       \* what reading that file meets: "none", "OSError", "EOFError"
    nfiles,      \* files the loop has taken from coreref_file_paths
    nopened,     \* files opened with bz2.open
    lines_read,  \* the decoded lines read from the open file, in order
    pairs,       \* source_symbol_pairs of retrieve_source_symbol_pairs
    discovered,  \* discovered_symbols of process_all_coreref_files
    outcome,     \* how process_all_coreref_files ended
    failed_at,   \* the file (its number in the list) whose reading failed, or 0
    feed,        \* the lines the reference files of the run can hold
    csv_input,   \* source_name_pairs handed to config_file_writer
    csv_left,    \* the items its loop has yet to take
    written,     \* the rows of the configuration file, each with its terminator
    summary,     \* what config_file_writer returned
    files,       \* the files of a batch whose extractions run as tasks
    finished     \* the tasks that have appended their result

extraction == <<mapping, path, fault, nfiles, nopened, lines_read, pairs, discovered,
                outcome, failed_at, feed>>

writer == <<csv_input, csv_left, written, summary>>

tasks == <<files, finished>>

batch == <<extraction, writer, tasks>>

vars == <<pc, symbol, regex, text, found, symbols, sid, ilp, mlp, hits, batch>>

(***************************************************************************)
(* Bounds of the model.                                                    *)
(***************************************************************************)
\* backslash-separated segments a symbol may carry after its root
MaxSegs == 2
\* symbols in one source's list
MaxSymbols == 2

(***************************************************************************)
(* Outcomes of a Python call: a string, None, or a raised exception.       *)
(***************************************************************************)
Str(s) == [kind |-> "str", val |-> s, exc |-> ""]
NoneValue == [kind |-> "None", val |-> <<>>, exc |-> ""]
Raise(e) == [kind |-> "raise", val |-> <<>>, exc |-> e]
NotCalled == [kind |-> "pending", val |-> <<>>, exc |-> ""]

(***************************************************************************)
(* How a call of the extractor or of the batch ends: it returns a list of  *)
(* pairs, an exception escapes it, or sys.exit ends the process with the   *)
(* message of lines 563-565.                                               *)
(***************************************************************************)
NoMessage == [attempted |-> <<>>, extension |-> <<>>, expected |-> <<>>]
Running == [kind |-> "pending", val |-> <<>>, exc |-> "", msg |-> NoMessage]
Return(v) == [kind |-> "return", val |-> v, exc |-> "", msg |-> NoMessage]
Escapes(e) == [kind |-> "raise", val |-> <<>>, exc |-> e, msg |-> NoMessage]
SystemExit(m) == [kind |-> "SystemExit", val |-> <<>>, exc |-> "SystemExit", msg |-> m]

\* config_file_writer has not been called
NoSummary == [kind |-> "pending", symbols |-> 0]

WriterIdle ==
    /\ csv_input = <<>>
    /\ csv_left = <<>>
    /\ written = <<>>
    /\ summary = NoSummary

\* no task has been started
TasksIdle ==
    /\ files = <<>>
    /\ finished = {}

\* the batch has not been started
ExtractionIdle ==
    /\ mapping = <<>>
    /\ path = <<>>
    /\ fault = "none"
    /\ nfiles = 0
    /\ nopened = 0
    /\ lines_read = <<>>
    /\ pairs = <<>>
    /\ discovered = <<>>
    /\ outcome = Running
    /\ failed_at = 0
    /\ feed = {}

BatchIdle == ExtractionIdle /\ WriterIdle /\ TasksIdle

(***************************************************************************)
(* str methods used by the compiler.                                       *)
(***************************************************************************)
startswith(s, c) == Len(s) >= 1 /\ s[1] = c

endswith(s, c) == Len(s) >= 1 /\ s[Len(s)] = c

\* index of the first occurrence of character c in s, 0 when there is none
RECURSIVE IndexOf(_, _, _)
IndexOf(s, c, i) ==
    CASE i > Len(s) -> 0
      [] i <= Len(s) /\ s[i] = c -> i
      [] OTHER -> IndexOf(s, c, i + 1)

\* s.split(c): the components of s between the occurrences of c
RECURSIVE split(_, _)
split(s, c) ==
    LET i == IndexOf(s, c, 1) IN
    IF i = 0 THEN <<s>>
    ELSE <<SubSeq(s, 1, i - 1)>> \o split(SubSeq(s, i + 1, Len(s)), c)

\* c.join(parts)
RECURSIVE join(_, _)
join(c, parts) ==
    IF Len(parts) = 0 THEN <<>>
    ELSE IF Len(parts) = 1 THEN parts[1]
    ELSE parts[1] \o c \o join(c, Tail(parts))

(***************************************************************************)
(* Symbol Pattern Compiler.                                                *)
(***************************************************************************)
create_equity_regex(instrument_symbol) ==
    Str(<<"\\","b">> \o instrument_symbol
        \o <<"\\","b","-","{","0",",","1","}","[","A","-","Z","]","{","0",",","3","}",
             "@","{","0",",","1","}","[","a","-","z","A","-","Z","0","-","9","]",
             "{","0",",","1","0","}">>)

FuturesOneToFourDigits(input_symbol) ==
    IF ~endswith(input_symbol, "*")
    THEN LET symbol_components == split(input_symbol, "\\") IN
         IF Len(symbol_components) < 2 THEN Raise("IndexError")
         ELSE Str(symbol_components[1] \o <<"\\","\\">> \o symbol_components[2])
    ELSE LET symbol_root == split(input_symbol, "\\")[1] IN
         Str(symbol_root
             \o <<"\\","\\","[","A","-","Z","]","[","0","-","9","]","{","1",",","4","}">>)

create_futures_regex(input_symbol) ==
    IF ~endswith(input_symbol, "*")
    THEN LET symbol_components == split(input_symbol, "\\") IN
         IF Len(symbol_components) < 2 THEN Raise("IndexError")
         ELSE Str(symbol_components[1] \o <<"\\","\\">> \o symbol_components[2])
    ELSE LET symbol_root == split(input_symbol, "\\")[1] IN
         Str(symbol_root
             \o <<"\\","\\","[","A","-","Z","]","[","0","-","9","]","{","2",",","4","}">>)

\* create_options_regex were the strike after a given maturity digits only
OptionsStrikeOfDigitsOnly(input_symbol) ==
    LET symbol_components == split(input_symbol, "\\") IN
    IF ~endswith(input_symbol, "*")
    THEN IF Len(symbol_components) < 3 THEN Raise("IndexError")
         ELSE Str(symbol_components[1] \o <<"\\","\\">> \o symbol_components[2]
                  \o <<"\\","\\">> \o symbol_components[3])
    ELSE IF Len(symbol_components) = 2
         THEN Str(symbol_components[1]
                  \o <<"\\","\\","[","A","-","Z","]","[","0","-","9","]","{","2",",","4","}",
                       "\\","\\","[","0","-","9",".","]","{","1",",","1","0","}">>)
         ELSE IF Len(symbol_components) = 3
         THEN Str(symbol_components[1] \o <<"\\","\\">> \o symbol_components[2]
                  \o <<"\\","\\","[","0","-","9","]","{","1",",","1","0","}">>)
         ELSE NoneValue

create_options_regex(input_symbol) ==
    LET symbol_components == split(input_symbol, "\\") IN
    IF ~endswith(input_symbol, "*")
    THEN IF Len(symbol_components) < 3 THEN Raise("IndexError")
         ELSE Str(symbol_components[1] \o <<"\\","\\">> \o symbol_components[2]
                  \o <<"\\","\\">> \o symbol_components[3])
    ELSE IF Len(symbol_components) = 2
         THEN Str(symbol_components[1]
                  \o <<"\\","\\","[","A","-","Z","]","[","0","-","9","]","{","2",",","4","}",
                       "\\","\\","[","0","-","9",".","]","{","1",",","1","0","}">>)
         ELSE IF Len(symbol_components) = 3
         THEN Str(symbol_components[1] \o <<"\\","\\">> \o symbol_components[2]
                  \o <<"\\","\\","[","0","-","9",".","]","{","1",",","1","0","}">>)
         ELSE NoneValue

create_fixed_income_regex(input_symbol) ==
    Str(<<"\\","b">> \o input_symbol
        \o <<"\\","b","\\","\\","{","0",",","1","}","D","{","0",",","1","}",
             "@","{","0",",","1","}","[","a","-","z","A","-","Z","0","-","9","]",
             "{","1",",","1","0","}">>)

\* create_forwards_regex were its generic term any 2 to 4 letters or digits
ForwardsOfAnyAlphanumerics(input_symbol) ==
    IF ~endswith(input_symbol, "*")
    THEN LET symbol_components == split(input_symbol, "\\") IN
         IF Len(symbol_components) < 2 THEN Raise("IndexError")
         ELSE Str(symbol_components[1] \o <<"\\","\\">> \o symbol_components[2])
    ELSE LET symbol_root == split(input_symbol, "\\")[1] IN
         Str(symbol_root \o <<"\\","\\","[","a","-","z","A","-","Z","0","-","9","]","{","2",",","4","}">>)

create_forwards_regex(input_symbol) ==
    IF ~endswith(input_symbol, "*")
    THEN LET symbol_components == split(input_symbol, "\\") IN
         IF Len(symbol_components) < 2 THEN Raise("IndexError")
         ELSE Str(symbol_components[1] \o <<"\\","\\">> \o symbol_components[2])
    ELSE LET symbol_root == split(input_symbol, "\\")[1] IN
         Str(symbol_root \o <<"\\","\\","[","A","-","Z","0","-","9","]","{","2",",","4","}">>)

create_index_regex(input_symbol) ==
    Str(<<"\\","b">> \o input_symbol \o <<"\\","b">>)

create_specific_instrument_regex(input_symbol) ==
    IF startswith(input_symbol, "B") THEN create_fixed_income_regex(input_symbol)
    ELSE IF startswith(input_symbol, "E") THEN create_equity_regex(input_symbol)
    ELSE IF startswith(input_symbol, "F") THEN create_futures_regex(input_symbol)
    ELSE IF startswith(input_symbol, "I") THEN create_index_regex(input_symbol)
    ELSE IF startswith(input_symbol, "O") THEN create_options_regex(input_symbol)
    ELSE IF startswith(input_symbol, "R") THEN create_forwards_regex(input_symbol)
    ELSE NoneValue

(***************************************************************************)
(* Composite Pattern Builder.                                              *)
(***************************************************************************)
\* create_instrument_level_pattern were it to drop the symbols that compile
\* to None and join the rest
InstrumentPatternSkippingNone(instrument_symbols) ==
    LET specific_instrument_regexes ==
            [n \in 1..Len(instrument_symbols) |->
                create_specific_instrument_regex(instrument_symbols[n])]
        N == 1..Len(instrument_symbols)
        IsString(r) == r.kind = "str"
    IN IF \E n \in N : specific_instrument_regexes[n].kind = "raise"
       THEN Raise("IndexError")
       ELSE LET kept == SelectSeq(specific_instrument_regexes, IsString) IN
            Str(<<"(">> \o join(<<"|">>, [n \in 1..Len(kept) |-> kept[n].val]) \o <<")">>)

\* create_instrument_level_pattern were it to join the alternatives with
\* nothing between them
InstrumentPatternJoinedBare(instrument_symbols) ==
    LET specific_instrument_regexes ==
            [n \in 1..Len(instrument_symbols) |->
                create_specific_instrument_regex(instrument_symbols[n])]
        N == 1..Len(instrument_symbols)
    IN IF \E n \in N : specific_instrument_regexes[n].kind = "raise"
       THEN Raise("IndexError")
       ELSE IF \E n \in N : specific_instrument_regexes[n].kind = "None"
       THEN Raise("TypeError")
       ELSE Str(<<"(">>
                \o join(<<>>, [n \in N |-> specific_instrument_regexes[n].val])
                \o <<")">>)

\* The list comprehension compiles every symbol first, so an IndexError of
\* any symbol is raised before str.join meets a None (TypeError).
create_instrument_level_pattern(instrument_symbols) ==
    LET specific_instrument_regexes ==
            [n \in 1..Len(instrument_symbols) |->
                create_specific_instrument_regex(instrument_symbols[n])]
        N == 1..Len(instrument_symbols)
    IN IF \E n \in N : specific_instrument_regexes[n].kind = "raise"
       THEN Raise("IndexError")
       ELSE IF \E n \in N : specific_instrument_regexes[n].kind = "None"
       THEN Raise("TypeError")
       ELSE Str(<<"(">>
                \o join(<<"|">>, [n \in N |-> specific_instrument_regexes[n].val])
                \o <<")">>)

\* create_dc_message_level_pattern were it to leave out the message type and
\* the source id before the group of symbols
MessagePatternWithoutPrefix(source_id, instrument_symbols) ==
    create_instrument_level_pattern(instrument_symbols)

\* create_dc_message_level_pattern were it to select every DC line of the
\* source, with no group of symbols after the prefix
MessagePatternOfThePrefixOnly(source_id, instrument_symbols) ==
    LET inner == create_instrument_level_pattern(instrument_symbols) IN
    IF inner.kind = "raise" THEN inner
    ELSE Str(<<"^","D","C","\\","|">> \o source_id \o <<"\\","|">>)

create_dc_message_level_pattern(source_id, instrument_symbols) ==
    LET inner == create_instrument_level_pattern(instrument_symbols) IN
    IF inner.kind = "raise" THEN inner
    ELSE Str(<<"^","D","C","\\","|">> \o source_id \o <<"\\","|">> \o inner.val)

(***************************************************************************)
(* re.search.  The pattern text is read as Python's re reads it, for the   *)
(* syntax the compiler's templates and the symbols' characters can give:   *)
(* literals, '.', classes with ranges, the repeats '*' and '{m,n}', the    *)
(* escapes \b \B \A \Z and an escaped punctuation character, '^', and      *)
(* groups with '|'.  A backslash before any other letter or a digit is     *)
(* rejected as re rejects \H, \M or \17 (bad escape, invalid group         *)
(* reference); the class escapes \d \s \w are not formed by any symbol of  *)
(* the model.  Repeats are greedy and alternatives are tried in order, at  *)
(* the leftmost position first.                                            *)
(***************************************************************************)
CharOrder ==
    <<"0","1","2","3","4","5","6","7","8","9",
      "A","B","C","D","E","F","G","H","I","J","K","L","M",
      "N","O","P","Q","R","S","T","U","V","W","X","Y","Z",
      "a","b","c","d","e","f","g","h","i","j","k","l","m",
      "n","o","p","q","r","s","t","u","v","w","x","y","z">>

OrdOf(c) == IndexOf(CharOrder, c, 1)

AlphaNumeric == {CharOrder[k] : k \in 1..Len(CharOrder)}

WordChars == AlphaNumeric \cup {"_"}

CharRange(a, b) == {CharOrder[k] : k \in OrdOf(a)..OrdOf(b)}

\* the characters of a class body p[i..j-1]
RECURSIVE ClassItems(_, _, _)
ClassItems(p, i, j) ==
    IF i >= j THEN {}
    ELSE IF i + 2 < j /\ p[i + 1] = "-"
    THEN CharRange(p[i], p[i + 2]) \cup ClassItems(p, i + 3, j)
    ELSE {p[i]} \cup ClassItems(p, i + 1, j)

\* the number written by the digits p[i..j-1]
RECURSIVE ParseNat(_, _, _)
ParseNat(p, i, j) ==
    IF j <= i THEN 0
    ELSE ParseNat(p, i, j - 1) * 10 + (OrdOf(p[j - 1]) - 1)

Token(k) == [k |-> k, cs |-> {}, lo |-> 1, hi |-> 1]

\* the repeat written at p[n], if any: hi = -1 is "no upper limit"
Repeat(p, n) ==
    IF n <= Len(p) /\ p[n] = "*" THEN [lo |-> 0, hi |-> -1, next |-> n + 1]
    ELSE IF n <= Len(p) /\ p[n] = "{"
    THEN LET comma == IndexOf(p, ",", n)
             close == IndexOf(p, "}", n)
         IN [lo |-> ParseNat(p, n + 1, comma),
             hi |-> ParseNat(p, comma + 1, close),
             next |-> close + 1]
    ELSE [lo |-> 1, hi |-> 1, next |-> n]

\* an atom of kind k over the characters cs, with the repeat written at
\* p[n]; a '*' after a repeat is rejected (multiple repeat)
Repeated(p, k, cs, n) ==
    LET r == Repeat(p, n) IN
    IF r.next <= Len(p) /\ r.next > n /\ p[r.next] = "*"
    THEN [tok |-> Token("err"), next |-> r.next]
    ELSE [tok |-> [k |-> k, cs |-> cs, lo |-> r.lo, hi |-> r.hi], next |-> r.next]

\* the token of an escape: p[i] is the character after the backslash
EscapeAt(p, i) ==
    CASE i > Len(p) -> [tok |-> Token("err"), next |-> i]
      [] i <= Len(p) /\ p[i] = "b" -> [tok |-> Token("wb"), next |-> i + 1]
      [] i <= Len(p) /\ p[i] = "B" -> [tok |-> Token("nwb"), next |-> i + 1]
      [] i <= Len(p) /\ p[i] = "A" -> [tok |-> Token("bol"), next |-> i + 1]
      [] i <= Len(p) /\ p[i] = "Z" -> [tok |-> Token("eol"), next |-> i + 1]
      [] i <= Len(p) /\ p[i] \in AlphaNumeric \ {"b", "B", "A", "Z"} ->
             [tok |-> Token("err"), next |-> i + 1]
      [] OTHER -> Repeated(p, "cls", {p[i]}, i + 1)

\* the token that starts at p[i], and the position after it
TokenAt(p, i) ==
    CASE p[i] = "(" -> [tok |-> Token("open"), next |-> i + 1]
      [] p[i] = ")" -> [tok |-> Token("close"), next |-> i + 1]
      [] p[i] = "|" -> [tok |-> Token("alt"), next |-> i + 1]
      [] p[i] = "^" -> [tok |-> Token("bol"), next |-> i + 1]
      [] p[i] = "*" -> [tok |-> Token("err"), next |-> i + 1]
      [] p[i] = "." -> Repeated(p, "any", {}, i + 1)
      [] p[i] = "[" -> LET j == IndexOf(p, "]", i + 1) IN
                       Repeated(p, "cls", ClassItems(p, i + 1, j), j + 1)
      [] p[i] = "\\" -> EscapeAt(p, i + 1)
      [] OTHER -> Repeated(p, "cls", {p[i]}, i + 1)

\* the pattern p from position i as tokens; an "err" token ends a pattern
\* that re.compile rejects
RECURSIVE Lex(_, _)
Lex(p, i) ==
    IF i > Len(p) THEN <<>>
    ELSE LET x == TokenAt(p, i) IN
         IF x.tok.k = "err" THEN <<x.tok>> ELSE <<x.tok>> \o Lex(p, x.next)

Nesting(tok) == CASE tok.k = "open" -> 1 [] tok.k = "close" -> -1 [] OTHER -> 0

\* index of the "close" token that ends the group opened before position i
RECURSIVE ClosingAt(_, _, _)
ClosingAt(toks, i, depth) ==
    CASE i > Len(toks) -> 0
      [] i <= Len(toks) /\ toks[i].k = "close" /\ depth = 0 -> i
      [] OTHER -> ClosingAt(toks, i + 1, depth + Nesting(toks[i]))

\* index of the first '|' outside every group, from position i
RECURSIVE TopAlt(_, _, _)
TopAlt(toks, i, depth) ==
    CASE i > Len(toks) -> 0
      [] i <= Len(toks) /\ toks[i].k = "alt" /\ depth = 0 -> i
      [] OTHER -> TopAlt(toks, i + 1, depth + Nesting(toks[i]))

RECURSIVE FirstOpen(_, _)
FirstOpen(toks, i) ==
    CASE i > Len(toks) -> 0
      [] i <= Len(toks) /\ toks[i].k = "open" -> i
      [] OTHER -> FirstOpen(toks, i + 1)

\* every a \o b, a from as and b from bs, the order of as first
RECURSIVE Products(_, _)
Products(as, bs) ==
    IF Len(as) = 0 THEN <<>>
    ELSE [n \in 1..Len(bs) |-> as[1] \o bs[n]] \o Products(Tail(as), bs)

\* the pattern as the list of its group-free alternatives, in the order re
\* tries them
RECURSIVE Alternatives(_)
RECURSIVE ExpandBranch(_)
ExpandBranch(toks) ==
    LET o == FirstOpen(toks, 1) IN
    IF o = 0 THEN <<toks>>
    ELSE LET c == ClosingAt(toks, o + 1, 0) IN
         Products(Products(<<SubSeq(toks, 1, o - 1)>>,
                           Alternatives(SubSeq(toks, o + 1, c - 1))),
                  ExpandBranch(SubSeq(toks, c + 1, Len(toks))))

Alternatives(toks) ==
    LET a == TopAlt(toks, 1, 0) IN
    IF a = 0 THEN ExpandBranch(toks)
    ELSE ExpandBranch(SubSeq(toks, 1, a - 1))
         \o Alternatives(SubSeq(toks, a + 1, Len(toks)))

IsWord(t, i) == i >= 1 /\ i <= Len(t) /\ t[i] \in WordChars

AtBoundary(t, i) == IsWord(t, i - 1) # IsWord(t, i)

Accepts(a, c) == IF a.k = "any" THEN c # "\n" ELSE c \in a.cs

\* how many characters of t from position i the repeated atom a can take
RECURSIVE Run(_, _, _, _)
Run(a, t, i, n) ==
    IF (a.hi # -1 /\ n >= a.hi) \/ i + n > Len(t) THEN n
    ELSE IF ~Accepts(a, t[i + n]) THEN n
    ELSE Run(a, t, i, n + 1)

\* the position after the match of atoms[k..] at position i of t, 0 when
\* there is none; the longest repeat is tried first
RECURSIVE MatchFrom(_, _, _, _)
RECURSIVE TryCount(_, _, _, _, _)
TryCount(atoms, k, t, i, n) ==
    LET e == MatchFrom(atoms, k + 1, t, i + n) IN
    IF e # 0 THEN e
    ELSE IF n > atoms[k].lo THEN TryCount(atoms, k, t, i, n - 1)
    ELSE 0

MatchFrom(atoms, k, t, i) ==
    CASE k > Len(atoms) -> i
      [] k <= Len(atoms) /\ atoms[k].k = "wb" ->
             IF AtBoundary(t, i) THEN MatchFrom(atoms, k + 1, t, i) ELSE 0
      [] k <= Len(atoms) /\ atoms[k].k = "nwb" ->
             IF ~AtBoundary(t, i) THEN MatchFrom(atoms, k + 1, t, i) ELSE 0
      [] k <= Len(atoms) /\ atoms[k].k = "bol" ->
             IF i = 1 THEN MatchFrom(atoms, k + 1, t, i) ELSE 0
      [] k <= Len(atoms) /\ atoms[k].k = "eol" ->
             IF i = Len(t) + 1 THEN MatchFrom(atoms, k + 1, t, i) ELSE 0
      [] OTHER -> LET n == Run(atoms[k], t, i, 0) IN
                  IF n < atoms[k].lo THEN 0 ELSE TryCount(atoms, k, t, i, n)

Match(b, e, j) == [kind |-> "match", begin |-> b, end |-> e, alt |-> j]
NoMatch == [kind |-> "None", begin |-> 0, end |-> 0, alt |-> 0]
ReError == [kind |-> "raise", begin |-> 0, end |-> 0, alt |-> 0]
NotSearched == [kind |-> "pending", begin |-> 0, end |-> 0, alt |-> 0]

RECURSIVE FirstAlt(_, _, _, _)
FirstAlt(alts, j, t, i) ==
    IF j > Len(alts) THEN NoMatch
    ELSE LET e == MatchFrom(alts[j], 1, t, i) IN
         IF e # 0 THEN Match(i, e, j) ELSE FirstAlt(alts, j + 1, t, i)

RECURSIVE FirstAt(_, _, _)
FirstAt(alts, t, i) ==
    IF i > Len(t) + 1 THEN NoMatch
    ELSE LET m == FirstAlt(alts, 1, t, i) IN
         IF m.kind = "match" THEN m ELSE FirstAt(alts, t, i + 1)

\* re.search(pattern, t): the first match, None, or re.error
re_search(pattern, t) ==
    LET toks == Lex(pattern, 1) IN
    IF \E n \in 1..Len(toks) : toks[n].k = "err" THEN ReError
    ELSE FirstAt(Alternatives(toks), t, 1)

\* m[0]: the text of a match
MatchedText(t, m) == SubSeq(t, m.begin, m.end - 1)

(***************************************************************************)
(* Inputs: symbols a user's configuration can hold, and decoded lines of   *)
(* a reference file, 'DC|<source id>|<instrument token>|'.                 *)
(***************************************************************************)
Heads ==
    {<<"F",":","X">>, <<"O",":","P">>, <<"R",":","G">>, <<"E",":","V">>,
     <<"B",":","N">>, <<"I",":","K">>, <<"X",":","Y">>}

Segs == {<<"H","2","1">>, <<"*">>, <<"A","2","1">>, <<"1","7",".","5">>, <<"5","D">>}

\* up to n segments, each after a backslash
RECURSIVE SegTails(_)
SegTails(n) ==
    IF n = 0 THEN {<<>>}
    ELSE SegTails(n - 1)
         \cup {t \o <<"\\">> \o g : t \in SegTails(n - 1), g \in Segs}

Symbols == {h \o t : h \in Heads, t \in SegTails(MaxSegs)}

LineTokens ==
    {<<"F",":","X","\\","H","2","1">>, <<"F",":","X","\\","H","2","1","1","5">>,
     <<"F",":","X","\\","Z","2","0">>, <<"F",":","X","\\","M","9">>,
     <<"F",":","X","\\","2","1">>, <<"F",":","X","Y","\\","H","2","1">>,
     <<"O",":","P","\\","A","2","1","\\","1","7",".","5">>,
     <<"O",":","P","\\","A","2","1","\\","1","7","2","5">>,
     <<"O",":","P","\\","A","2","1","\\","1","7",".","0">>,
     <<"O",":","P","\\","H","2","1","\\","1","7",".","5">>,
     <<"O",":","Q","\\","A","2","1","\\","1","7",".","5">>,
     <<"R",":","G","\\","5","D">>, <<"R",":","G","\\","5","D","X">>,
     <<"R",":","G","\\","2","Y">>, <<"R",":","G","\\","5","d">>,
     <<"E",":","V">>, <<"E",":","V","-","G","B","P">>, <<"E",":","V","X">>,
     <<"E",":","V","-","G","B","1">>, <<"E",":","V","@","X","L">>,
     <<"B",":","N">>, <<"B",":","N","\\","D">>,
     <<"I",":","K">>, <<"I",":","K","2">>}

DCLine(source, token) == <<"D","C","|">> \o source \o <<"|">> \o token \o <<"|">>

Lines == {DCLine(<<"2","0","7">>, k) : k \in LineTokens}

\* the instrument token of a line: its third '|'-delimited field
InstrumentToken(t) == split(t, "|")[3]

(***************************************************************************)
(* The compiler applied to one symbol, and the pattern to one line.        *)
(***************************************************************************)
InitCompile ==
    /\ pc = "symbol"
    /\ symbol \in Symbols
    /\ text \in Lines
    /\ regex = NotCalled
    /\ found = NotSearched
    /\ symbols = <<>>
    /\ sid = <<>>
    /\ ilp = NotCalled
    /\ mlp = NotCalled
    /\ hits = <<>>
    /\ BatchIdle

Compile ==
    /\ pc = "symbol"
    /\ regex' = create_specific_instrument_regex(symbol)
    /\ pc' = "compiled"
    /\ UNCHANGED <<symbol, text, found, symbols, sid, ilp, mlp, hits, batch>>

SearchLine ==
    /\ pc = "compiled"
    /\ regex.kind = "str"
    /\ found' = re_search(regex.val, text)
    /\ pc' = "searched"
    /\ UNCHANGED <<symbol, text, regex, symbols, sid, ilp, mlp, hits, batch>>

NextCompile == Compile \/ SearchLine

SpecCompile == InitCompile /\ [][NextCompile]_vars

(***************************************************************************)
(* Claims about the compiler (checked under SpecCompile).                  *)
(***************************************************************************)
HasWildcard(s) == \E n \in 1..Len(s) : s[n] = "*"

\* a futures or forward symbol root\maturity, or an options symbol
\* root\maturity\strike, with no wildcard
IsLiteralContract(s) ==
    /\ ~HasWildcard(s)
    /\ \/ s[1] \in {"F", "R"} /\ Len(split(s, "\\")) = 2
       \/ s[1] = "O" /\ Len(split(s, "\\")) = 3

\* C1: the pattern of a futures, forward or options symbol with a literal
\* maturity/strike matches a line only when the line's instrument token is
\* exactly that symbol; it matches no line that carries another maturity or
\* strike token of the same root.
C1_LiteralMatchesOnlyItsToken ==
    (pc = "searched" /\ IsLiteralContract(symbol) /\ found.kind = "match")
        => InstrumentToken(text) = symbol

IsFuturesWildcard(s) ==
    /\ s[1] = "F"
    /\ Len(split(s, "\\")) = 2
    /\ split(s, "\\")[2] = <<"*">>

RootOf(s) == split(s, "\\")[1]

TokenIs(root, maturity) == InstrumentToken(text) = root \o <<"\\">> \o maturity

\* C2 as stated: for a wildcard futures symbol X\* the pattern matches
\* X\H21, X\Z20 and X\M9, and matches neither X\21 nor XY\H21.
C2_WildcardFuturesAsStated ==
    (pc = "searched" /\ IsFuturesWildcard(symbol)) =>
        LET X == RootOf(symbol) IN
        /\ (TokenIs(X, <<"H","2","1">>) \/ TokenIs(X, <<"Z","2","0">>)
            \/ TokenIs(X, <<"M","9">>)) => found.kind = "match"
        /\ (TokenIs(X, <<"2","1">>) \/ TokenIs(X \o <<"Y">>, <<"H","2","1">>))
            => found.kind = "None"

\* C2 amended: for a wildcard futures symbol X\* the pattern matches X\H21
\* and X\Z20, and matches none of X\M9 (one digit), X\21 and XY\H21.
C2_WildcardFutures ==
    (pc = "searched" /\ IsFuturesWildcard(symbol)) =>
        LET X == RootOf(symbol) IN
        /\ (TokenIs(X, <<"H","2","1">>) \/ TokenIs(X, <<"Z","2","0">>))
            => found.kind = "match"
        /\ (TokenIs(X, <<"M","9">>) \/ TokenIs(X, <<"2","1">>)
            \/ TokenIs(X \o <<"Y">>, <<"H","2","1">>)) => found.kind = "None"

\* a wildcard futures symbol was searched in a line whose maturity has one digit
C2_Witness ==
    /\ pc = "searched"
    /\ IsFuturesWildcard(symbol)
    /\ TokenIs(RootOf(symbol), <<"M","9">>)
    /\ found.kind = "None"

SupportedPrefixes == {"B", "E", "F", "I", "O", "R"}

\* C3: for a symbol whose leading character is none of B, E, F, I, O, R the
\* compiler raises an error to its caller instead of returning a value.
C3_UnsupportedPrefixRaises ==
    (pc # "symbol" /\ symbol[1] \notin SupportedPrefixes) => regex.kind = "raise"

\* C5: for every symbol whose leading character is one of B, E, F, I, O, R
\* the compiler returns a pattern string, whatever the number of segments.
C5_TotalOverSupportedPrefixes ==
    (pc # "symbol" /\ symbol[1] \in SupportedPrefixes) => regex.kind = "str"

(***************************************************************************)
(* The two composite builders applied to one source's symbol list, and     *)
(* their patterns to one line.                                             *)
(***************************************************************************)
BuildSymbols ==
    {<<"F",":","X","\\","*">>, <<"F",":","X","\\","H","2","1">>,
     <<"O",":","P","\\","A","2","1","\\","*">>, <<"E",":","V">>, <<"I",":","K">>,
     <<"R",":","G","\\","*">>, <<"F",":","X">>, <<"X",":","Y">>,
     <<"E",":","V","\\","H","2","1">>}

BuildTokens ==
    {<<"F",":","X","\\","H","2","1">>, <<"O",":","P","\\","A","2","1","\\","1","7",".","5">>,
     <<"E",":","V","-","G","B","P">>, <<"I",":","K">>}

SourceIds == {<<"2","0","7">>, <<"9","9","9">>}

\* lines of the requested source, of another source, of another message
\* type, with text before the message type, and with a field before the token
BuildLines ==
    UNION {{DCLine(<<"2","0","7">>, k),
            DCLine(<<"9","9","9">>, k),
            <<"D","S","|","2","0","7","|">> \o k \o <<"|">>,
            <<"Z">> \o DCLine(<<"2","0","7">>, k),
            DCLine(<<"2","0","7">>, <<"Z","|">> \o k)} : k \in BuildTokens}

\* the lists of at most n members of S
RECURSIVE ListsUpTo(_, _)
ListsUpTo(S, n) ==
    IF n = 0 THEN {<<>>}
    ELSE ListsUpTo(S, n - 1)
         \cup {Append(l, x) : l \in ListsUpTo(S, n - 1), x \in S}

InitBuild ==
    /\ pc = "list"
    /\ symbols \in ListsUpTo(BuildSymbols, MaxSymbols)
    /\ sid = <<"2","0","7">>
    /\ text \in BuildLines
    /\ ilp = NotCalled
    /\ mlp = NotCalled
    /\ hits = <<>>
    /\ symbol = <<>>
    /\ regex = NotCalled
    /\ found = NotSearched
    /\ BatchIdle

BuildMessagePattern ==
    /\ pc = "list"
    /\ mlp' = create_dc_message_level_pattern(sid, symbols)
    /\ pc' = "message"
    /\ UNCHANGED <<symbol, regex, text, found, symbols, sid, ilp, hits, batch>>

BuildInstrumentPattern ==
    /\ pc = "message"
    /\ ilp' = create_instrument_level_pattern(symbols)
    /\ pc' = "built"
    /\ UNCHANGED <<symbol, regex, text, found, symbols, sid, mlp, hits, batch>>

\* re.search of the line with both composites and with each symbol's own pattern
SearchPatterns ==
    /\ pc = "built"
    /\ ilp.kind = "str"
    /\ mlp.kind = "str"
    /\ hits' = [ip |-> re_search(ilp.val, text),
                mp |-> re_search(mlp.val, text),
                each |-> [n \in 1..Len(symbols) |->
                            re_search(create_specific_instrument_regex(symbols[n]).val, text)]]
    /\ pc' = "searched"
    /\ UNCHANGED <<symbol, regex, text, found, symbols, sid, ilp, mlp, batch>>

NextBuild == BuildMessagePattern \/ BuildInstrumentPattern \/ SearchPatterns

SpecBuild == InitBuild /\ [][NextBuild]_vars

(***************************************************************************)
(* Claims about the composite builders (checked under SpecBuild).          *)
(***************************************************************************)
HasUnsupported(l) == \E n \in 1..Len(l) : l[n][1] \notin SupportedPrefixes

HasSupported(l) == \E n \in 1..Len(l) : l[n][1] \in SupportedPrefixes

\* C4: when a source's list holds a symbol with an unsupported prefix, both
\* builders raise an error and return no pattern, in particular none built
\* from the remaining supported symbols.
C4_UnsupportedSymbolFailsTheList ==
    /\ (pc \in {"message", "built"} /\ HasUnsupported(symbols)) => mlp.kind = "raise"
    /\ (pc = "built" /\ HasUnsupported(symbols)) => ilp.kind = "raise"

\* a list of a supported and an unsupported symbol, for which join met the None
C4_Witness ==
    /\ pc = "built"
    /\ HasUnsupported(symbols)
    /\ HasSupported(symbols)
    /\ ilp = Raise("TypeError")
    /\ mlp = Raise("TypeError")

Matched(m) == m.kind = "match"

\* C6: over n >= 1 symbols the instrument-level pattern is one parenthesized
\* alternation whose alternatives are the n per-symbol patterns in input
\* order, and a line is matched by it exactly when at least one of the n
\* patterns matches the line.  (The n patterns have match sets when re accepts
\* them; the composite is rejected exactly when one of them is.)
C6_AlternationIsUnion ==
    (pc = "searched" /\ Len(symbols) >= 1) =>
        LET N == 1..Len(symbols)
            body == SubSeq(ilp.val, 2, Len(ilp.val) - 1)
        IN /\ ilp.val[1] = "(" /\ ilp.val[Len(ilp.val)] = ")"
           /\ split(body, "|")
                = [n \in N |-> create_specific_instrument_regex(symbols[n]).val]
           /\ hits.ip.kind = "raise" <=> \E n \in N : hits.each[n].kind = "raise"
           /\ hits.ip.kind # "raise"
                => (Matched(hits.ip) <=> \E n \in N : Matched(hits.each[n]))

\* a list of two symbols whose second pattern alone matches the line
C6_Witness ==
    /\ pc = "searched"
    /\ Len(symbols) = 2
    /\ ~Matched(hits.each[1])
    /\ Matched(hits.each[2])
    /\ Matched(hits.ip)

\* pattern.match(t, i - 1): whether the pattern matches t at position i
re_match_at(pattern, t, i) ==
    Matched(FirstAlt(Alternatives(Lex(pattern, 1)), 1, t, i))

IsPrefix(a, t) == Len(a) <= Len(t) /\ SubSeq(t, 1, Len(a)) = a

\* what C7 requires of a line the message-level pattern matched
AnchoredOnASymbol ==
    LET prefix == <<"D","C","|">> \o sid \o <<"|">> IN
    /\ IsPrefix(prefix, text)
    /\ hits.mp.begin = 1
    /\ \E n \in 1..Len(symbols) :
          re_match_at(create_specific_instrument_regex(symbols[n]).val,
                      text, Len(prefix) + 1)

\* C7: a line is matched by the message-level pattern only if it starts with
\* 'DC|', the source id and '|', followed immediately by text that one of the
\* symbols' patterns matches there; the anchor and the prefix hold for every
\* alternative, not only for the first.
C7_MessagePatternIsAnchored ==
    (pc = "searched" /\ Matched(hits.mp)) => AnchoredOnASymbol

\* C7 for the lists that hold a symbol: the part of C7 the empty list leaves
\* standing
C7_AnchoredForNonEmptyLists ==
    (pc = "searched" /\ Matched(hits.mp) /\ Len(symbols) >= 1) => AnchoredOnASymbol

(***************************************************************************)
(* Streaming Extractor and Batch Orchestrator.                             *)
(***************************************************************************)
\* files in one batch
MaxFiles == 2
\* lines in one reference file
MaxLines == 2

RECURSIVE LastIndexOf(_, _, _)
LastIndexOf(s, c, i) ==
    CASE i < 1 -> 0
      [] i >= 1 /\ s[i] = c -> i
      [] OTHER -> LastIndexOf(s, c, i - 1)

\* pathlib.Path.name: the last component of the path
PathName(file_path) ==
    SubSeq(file_path, LastIndexOf(file_path, "/", Len(file_path)) + 1, Len(file_path))

\* pathlib.Path.suffix: the last dot of the name and what follows it
PathSuffix(file_path) ==
    LET name == PathName(file_path)
        i == LastIndexOf(name, ".", Len(name))
    IN IF i <= 1 THEN <<>> ELSE SubSeq(name, i, Len(name))

\* get_source_id_from_file_path were it to split the path, not its name
SourceIdOfWholePath(file_path) ==
    LET file_name == split(file_path, ".")[1]
        name_components == split(file_name, "_")
    IN name_components[2]

\* the paths of the model follow the file name convention PREFIX_<id>_<date>
get_source_id_from_file_path(file_path) ==
    LET file_name == split(PathName(file_path), ".")[1]
        name_components == split(file_name, "_")
    IN name_components[2]

\* a list of symbols as a Python value
ListValue(l) == [kind |-> "list", val |-> l, exc |-> ""]

\* dict.get: the list of the key, None for a key the dictionary lacks
retrieve_instruments(source_id, source_symbols_dictionary) ==
    IF source_id \in DOMAIN source_symbols_dictionary
    THEN ListValue(source_symbols_dictionary[source_id])
    ELSE NoneValue

\* line 637 were the test written 'in' for 'not in'
InTheKeys(source_id, source_symbols_dictionary) ==
    source_id \in DOMAIN source_symbols_dictionary

\* line 637: the source id is no key of the dictionary
not_in_keys(source_id, source_symbols_dictionary) ==
    source_id \notin DOMAIN source_symbols_dictionary

\* the body of the loop over the lines (lines 556-561): the pairs after one
\* more line, or the exception that escapes
ScanEveryInstrumentLine(source_symbol_pairs, path_to_coreref_file, line, message_level_pattern, instrument_level_pattern) ==
    LET g == re_search(instrument_level_pattern, line) IN
    IF g.kind = "raise" THEN Escapes("re.error")
    ELSE IF ~(g.kind = "match") THEN Return(source_symbol_pairs)
    ELSE Return(Append(source_symbol_pairs,
                       <<get_source_id_from_file_path(path_to_coreref_file),
                         MatchedText(line, g)>>))

ScanLine(source_symbol_pairs, path_to_coreref_file, line, message_level_pattern, instrument_level_pattern) ==
    LET m == re_search(message_level_pattern, line)
        g == re_search(instrument_level_pattern, line)
    IN IF m.kind = "raise" THEN Escapes("re.error")
       ELSE IF m.kind = "None" THEN Return(source_symbol_pairs)
       ELSE IF g.kind = "raise" THEN Escapes("re.error")
       ELSE IF g.kind = "None" THEN Escapes("TypeError")
       ELSE Return(Append(source_symbol_pairs,
                          <<get_source_id_from_file_path(path_to_coreref_file),
                            MatchedText(line, g)>>))

\* the handler of OSError (lines 562-565) were it to leave the loop and let
\* the function return what it has collected
OSErrorReturnsCollected(source_symbol_pairs, path_to_coreref_file) ==
    Return(source_symbol_pairs)

\* the handler of OSError (lines 562-565)
OnOSError(source_symbol_pairs, path_to_coreref_file) ==
    SystemExit([attempted |-> path_to_coreref_file,
                extension |-> PathSuffix(path_to_coreref_file),
                expected |-> <<".","b","z","2">>])

\* how the with-block ends when reading meets the fault f (lines 553-566):
\* only OSError is caught
OnReadFault(f, source_symbol_pairs, path_to_coreref_file) ==
    IF f = "OSError" THEN OnOSError(source_symbol_pairs, path_to_coreref_file)
    ELSE Escapes(f)

\* a < b for Python strings of digits and letters
RECURSIVE StrLess(_, _, _)
StrLess(a, b, i) ==
    CASE i > Len(b) -> FALSE
      [] i <= Len(b) /\ i > Len(a) -> TRUE
      [] i <= Len(b) /\ i <= Len(a) /\ a[i] # b[i] -> OrdOf(a[i]) < OrdOf(b[i])
      [] OTHER -> StrLess(a, b, i + 1)

\* x put into the sorted list after every member whose key is not greater
RECURSIVE InsertByKey(_, _)
InsertByKey(sorted, x) ==
    IF Len(sorted) = 0 THEN <<x>>
    ELSE IF StrLess(x[1], sorted[1][1], 1) THEN <<x>> \o sorted
    ELSE <<sorted[1]>> \o InsertByKey(Tail(sorted), x)

\* line 642 left out: the list as accumulated
Unsorted(l) == l

\* a sort that takes the list from its end, so that members of equal source
\* id come out in the reverse of their order
RECURSIVE SortFromTheEnd(_)
SortFromTheEnd(l) ==
    IF Len(l) = 0 THEN <<>>
    ELSE InsertByKey(SortFromTheEnd(Tail(l)), Head(l))

\* a sort that drops a pair the sorted list already holds
RECURSIVE SortWithoutRepeats(_)
SortWithoutRepeats(l) ==
    IF Len(l) = 0 THEN <<>>
    ELSE LET before == SortWithoutRepeats(SubSeq(l, 1, Len(l) - 1))
         IN IF \E i \in 1..Len(before) : before[i] = l[Len(l)]
            THEN before
            ELSE InsertByKey(before, l[Len(l)])

\* list.sort(key=lambda x: x[0]): stable, by source id
RECURSIVE sort_by_source(_)
sort_by_source(l) ==
    IF Len(l) = 0 THEN <<>>
    ELSE InsertByKey(sort_by_source(SubSeq(l, 1, Len(l) - 1)), l[Len(l)])

Paths ==
    {<<"a","/","C","O","R","E","R","E","F","_","2","0","7","_","2","0","2","0","1","0","1","6",".","t","x","t",".","b","z","2">>,
     <<"a","/","C","O","R","E","R","E","F","_","3","6","7","_","2","0","2","0","1","0","1","6",".","t","x","t",".","b","z","2">>,
     <<"a","/","C","O","R","E","R","E","F","_","9","9","9","_","2","0","2","0","1","0","1","6",".","t","x","t",".","b","z","2">>,
     <<"a","/","C","O","R","E","R","E","F","_","2","0","7","_","2","0","2","0","1","0","1","6",".","t","x","t">>}

\* what reading a file can meet: nothing; an OSError (the file is missing or
\* unreadable, is not bz2 data, or holds a corrupt block); an EOFError (the
\* bz2 stream is truncated)
Faults == {"none", "OSError", "EOFError"}

SourceMapping ==
    (<<"2","0","7">> :> <<<<"F",":","X","\\","*">>>>)
    @@ (<<"3","6","7">> :> <<<<"O",":","P","\\","A","2","1","\\","*">>,
                             <<"F",":","X","\\","Z","2","0">>>>)

BatchLines ==
    {DCLine(<<"2","0","7">>, <<"F",":","X","\\","H","2","1">>),
     DCLine(<<"3","6","7">>, <<"O",":","P","\\","A","2","1","\\","1","7",".","5">>),
     DCLine(<<"3","6","7">>, <<"F",":","X","\\","Z","2","0">>)}

InitBatch ==
    /\ pc = "loop"
    /\ mapping = SourceMapping
    /\ path = <<>>
    /\ fault = "none"
    /\ nfiles = 0
    /\ nopened = 0
    /\ lines_read = <<>>
    /\ pairs = <<>>
    /\ discovered = <<>>
    /\ outcome = Running
    /\ failed_at = 0
    /\ feed = BatchLines
    /\ WriterIdle
    /\ TasksIdle
    /\ text = <<>>
    /\ ilp = NotCalled
    /\ mlp = NotCalled
    /\ symbol = <<>>
    /\ regex = NotCalled
    /\ found = NotSearched
    /\ symbols = <<>>
    /\ sid = <<>>
    /\ hits = <<>>

idle == <<symbol, regex, found, symbols, sid, hits, mapping, feed, writer, tasks>>

\* lines 637-639: the next file's source id is no key of the mapping
SkipFile ==
    /\ pc = "loop"
    /\ nfiles < MaxFiles
    /\ \E p \in Paths, f \in Faults :
          /\ not_in_keys(get_source_id_from_file_path(p), mapping)
          /\ path' = p
          /\ fault' = f
    /\ nfiles' = nfiles + 1
    /\ UNCHANGED <<pc, text, ilp, mlp, nopened, lines_read, pairs, discovered,
                   outcome, failed_at, idle>>

\* lines 640-641: the next file's source id is a key: process_coreref_file
EnterFile ==
    /\ pc = "loop"
    /\ nfiles < MaxFiles
    /\ \E p \in Paths, f \in Faults :
          /\ ~not_in_keys(get_source_id_from_file_path(p), mapping)
          /\ path' = p
          /\ fault' = f
    /\ nfiles' = nfiles + 1
    /\ pc' = "compile"
    /\ UNCHANGED <<text, ilp, mlp, nopened, lines_read, pairs, discovered,
                   outcome, failed_at, idle>>

\* lines 594-606: both patterns, the message-level one first
CompilePatterns ==
    /\ pc = "compile"
    /\ LET source == get_source_id_from_file_path(path)
           instruments == retrieve_instruments(source, mapping)
           \* iterating over None raises TypeError in either builder
           top_level_regex ==
               IF instruments.kind = "None" THEN Raise("TypeError")
               ELSE create_dc_message_level_pattern(source, instruments.val)
           symbol_level_regex ==
               IF instruments.kind = "None" THEN Raise("TypeError")
               ELSE create_instrument_level_pattern(instruments.val)
       IN /\ mlp' = top_level_regex
          /\ ilp' = IF top_level_regex.kind = "raise" THEN NotCalled ELSE symbol_level_regex
          /\ IF top_level_regex.kind = "raise" \/ symbol_level_regex.kind = "raise"
             THEN /\ outcome' = Escapes(IF top_level_regex.kind = "raise"
                                        THEN top_level_regex.exc ELSE symbol_level_regex.exc)
                  /\ pc' = "done"
             ELSE /\ outcome' = outcome
                  /\ pc' = "open"
    /\ UNCHANGED <<text, path, fault, nfiles, nopened, lines_read, pairs, discovered,
                   failed_at, idle>>

\* lines 552-554: retrieve_source_symbol_pairs starts on the file
OpenFile ==
    /\ pc = "open"
    /\ nopened' = nopened + 1
    /\ lines_read' = <<>>
    /\ pairs' = <<>>
    /\ pc' = "read"
    /\ UNCHANGED <<text, ilp, mlp, path, fault, nfiles, discovered, outcome,
                   failed_at, idle>>

\* lines 555-561: one more line is read and scanned
ReadLine ==
    /\ pc = "read"
    /\ Len(lines_read) < MaxLines
    /\ \E l \in feed :
       \E r \in {ScanLine(pairs, path, l, mlp.val, ilp.val)} :
          /\ text' = l
          /\ lines_read' = Append(lines_read, l)
          /\ IF r.kind = "return"
             THEN pairs' = r.val /\ pc' = pc /\ outcome' = outcome
             ELSE pairs' = pairs /\ pc' = "done" /\ outcome' = r
    /\ UNCHANGED <<ilp, mlp, path, fault, nfiles, nopened, discovered, failed_at, idle>>

\* lines 554-555, 562-565: opening or reading the file fails
ReadFault ==
    /\ pc = "read"
    /\ fault # "none"
    /\ failed_at' = nfiles
    /\ LET r == OnReadFault(fault, pairs, path) IN
       IF r.kind = "return"
       THEN pc' = "returned" /\ outcome' = outcome
       ELSE pc' = "done" /\ outcome' = r
    /\ UNCHANGED <<text, ilp, mlp, path, fault, nfiles, nopened, lines_read, pairs,
                   discovered, idle>>

\* line 566: the file is read to its end
EndOfFile ==
    /\ pc = "read"
    /\ fault = "none"
    /\ pc' = "returned"
    /\ UNCHANGED <<text, ilp, mlp, path, fault, nfiles, nopened, lines_read, pairs,
                   discovered, outcome, failed_at, idle>>

\* line 641: discovered_symbols.extend(...)
ExtendDiscovered ==
    /\ pc = "returned"
    /\ discovered' = discovered \o pairs
    /\ pc' = "loop"
    /\ UNCHANGED <<text, ilp, mlp, path, fault, nfiles, nopened, lines_read, pairs,
                   outcome, failed_at, idle>>

\* lines 642-643: the list of files is exhausted
SortAndReturn ==
    /\ pc = "loop"
    /\ outcome' = Return(sort_by_source(discovered))
    /\ pc' = "done"
    /\ UNCHANGED <<text, ilp, mlp, path, fault, nfiles, nopened, lines_read, pairs,
                   discovered, failed_at, idle>>

NextBatch ==
    \/ SkipFile
    \/ EnterFile
    \/ CompilePatterns
    \/ OpenFile
    \/ ReadLine
    \/ ReadFault
    \/ EndOfFile
    \/ ExtendDiscovered
    \/ SortAndReturn

SpecBatch == InitBatch /\ [][NextBatch]_vars

\* the lines read so far that the message-level pattern of the file selects
SelectedLines ==
    SelectSeq(lines_read, LAMBDA l : re_search(mlp.val, l).kind = "match")

\* the file name's source id, read off the path of this model
SourceOfPath ==
    SubSeq(path, 11, 13)

C9_UnreadableFileExitsWithMessage ==
    failed_at # 0 =>
        /\ outcome.kind = "SystemExit"
        /\ outcome.msg.attempted = path
        /\ outcome.msg.extension = PathSuffix(path)
        /\ outcome.msg.expected = <<".","b","z","2">>

\* C10: once reading the k-th file of a batch has failed the batch is over:
\* no later file is taken or opened and no list is returned, neither the
\* pairs of the earlier files nor those of the earlier lines of the k-th.
C10_FailureEndsTheBatch ==
    failed_at # 0 =>
        /\ pc = "done"
        /\ outcome.kind \in {"SystemExit", "raise"}
        /\ nfiles = failed_at
        /\ nopened <= failed_at

\* the second file fails after pairs were collected from the first file and
\* from its own earlier lines
C10_Witness ==
    /\ failed_at = 2
    /\ nopened = 2
    /\ discovered # <<>>
    /\ pairs # <<>>
    /\ outcome.kind = "SystemExit"

\* the file the loop has just taken is of a source the mapping lacks
Unrequested(p) ==
    SubSeq(p, 11, 13) \notin DOMAIN mapping

\* C11: a file whose source id is no key of the mapping is skipped silently:
\* the step that takes it compiles nothing, opens nothing, leaves the
\* accumulator and the outcome as they are and goes on to the next file,
\* also when the file is unreadable; so the batch ends as it would without
\* the file.
C11_UnrequestedFileIsSkipped ==
    [][(nfiles' = nfiles + 1 /\ Unrequested(path')) =>
          /\ pc' = "loop"
          /\ discovered' = discovered
          /\ nopened' = nopened
          /\ mlp' = mlp
          /\ ilp' = ilp
          /\ lines_read' = lines_read
          /\ pairs' = pairs
          /\ failed_at' = failed_at
          /\ outcome' = outcome]_vars

\* an unreadable file of an unrequested source was the last of a batch that
\* returned the pairs of the file before it
C11_Witness ==
    /\ pc = "done"
    /\ nfiles = 2
    /\ Unrequested(path)
    /\ fault # "none"
    /\ nopened = 1
    /\ outcome.kind = "return"
    /\ outcome.val # <<>>

\* a precedes b in the lexicographic order of strings: at the first place
\* where they differ a has ended or has the smaller character
LexLess(a, b) ==
    \E i \in 1..Len(b) :
        /\ \A k \in 1..(i - 1) : k <= Len(a) /\ a[k] = b[k]
        /\ \/ i = Len(a) + 1
           \/ i <= Len(a) /\ OrdOf(a[i]) < OrdOf(b[i])

\* C12: the list the batch returns is in ascending order of source id,
\* compared as strings, whatever the order of the files.
C12_ReturnedListIsSortedBySource ==
    (pc = "done" /\ outcome.kind = "return") =>
        \A i, j \in 1..Len(outcome.val) :
            i < j => ~LexLess(outcome.val[j][1], outcome.val[i][1])

\* a file of source 367 was given before one of source 207 and the pairs of
\* 207 are returned first
C12_Witness ==
    /\ pc = "done"
    /\ outcome.kind = "return"
    /\ Len(discovered) >= 2
    /\ discovered[1][1] = <<"3","6","7">>
    /\ discovered[Len(discovered)][1] = <<"2","0","7">>
    /\ outcome.val[1][1] = <<"2","0","7">>
    /\ outcome.val[Len(outcome.val)][1] = <<"3","6","7">>

\* the source ids of the files of this model
KnownSources == {<<"2","0","7">>, <<"3","6","7">>, <<"9","9","9">>}

\* the members of l whose source id is s, in their order in l
OfSource(l, s) == SelectSeq(l, LAMBDA x : x[1] = s)

\* how many times the pair x occurs in l
Occurrences(l, x) == Cardinality({i \in 1..Len(l) : l[i] = x})

\* C13: the returned list is a stable rearrangement of the accumulated
\* concatenation of the per-file results: for each source id, its pairs are
\* those of the accumulator, all of them and in the accumulator's order (file
\* order, and line order within a file); nothing is dropped or merged.
C13_ReturnedListIsStableRearrangement ==
    (pc = "done" /\ outcome.kind = "return") =>
        /\ Len(outcome.val) = Len(discovered)
        /\ \A s \in KnownSources : OfSource(outcome.val, s) = OfSource(discovered, s)
        /\ \A i \in 1..Len(outcome.val) : outcome.val[i][1] \in KnownSources

\* two files of source 207 each gave the same pair, and both are returned
C13_Witness ==
    /\ pc = "done"
    /\ outcome.kind = "return"
    /\ nopened = 2
    /\ outcome.val = <<<<<<"2","0","7">>, <<"F",":","X","\\","H","2","1">>>>,
                       <<<<"2","0","7">>, <<"F",":","X","\\","H","2","1">>>>>>

\* C14 as stated: no (source id, symbol) pair occurs more than once in the
\* list the batch returns.
C14_NoPairIsReturnedTwice ==
    (pc = "done" /\ outcome.kind = "return") =>
        \A i, j \in 1..Len(outcome.val) :
            outcome.val[i] = outcome.val[j] => i = j

\* C14 as amended: the returned list is not deduplicated: a pair occurs in
\* it once for every selected line that carried it: in the result of a file
\* as many times as lines of the file carry it, and in the returned list as
\* many times as in the accumulator.
C14_PairsOccurOncePerSelectedLine ==
    /\ pc = "returned" =>
          LET selected == SelectedLines
              carried == [i \in 1..Len(selected) |->
                             LET g == re_search(ilp.val, selected[i])
                             IN SubSeq(selected[i], g.begin, g.end - 1)]
          IN \A k \in 1..Len(pairs) :
                Occurrences(pairs, pairs[k]) = Occurrences(carried, pairs[k][2])
    /\ (pc = "done" /\ outcome.kind = "return") =>
          \A k \in 1..Len(discovered) :
              Occurrences(outcome.val, discovered[k]) = Occurrences(discovered, discovered[k])

\* one file carried the same symbol on two selected lines and the pair is
\* returned twice
C14_Witness ==
    /\ pc = "done"
    /\ outcome.kind = "return"
    /\ nopened = 1
    /\ Len(outcome.val) = 2
    /\ outcome.val[1] = outcome.val[2]

(***************************************************************************)
(* process_coreref_file on one file.                                       *)
(***************************************************************************)
FilePaths ==
    {<<"C","O","R","E","R","E","F","_","2","0","7","_","2","0","2","0","1","0","2","3",".","t","x","t",".","b","z","2">>,
     <<"d","_","6","1","2","/","v",".","3","/","C","O","R","E","R","E","F","_","2","0","7","_","2","0","2","0","1","0","2","3",".","t","x","t",".","b","z","2">>,
     <<"x","/","C","O","R","E","R","E","F","_","6","1","2","_","2","0","2","0","1","0","2","3",".","t","x","t",".","b","z","2">>}

FuturesRequest == (<<"2","0","7">> :> <<<<"F",":","F","D","A","X","\\","*">>>>)

OptionsRequest == (<<"2","0","7">> :> <<<<"O",":","P","R","Y","\\","A","2","1","\\","*">>>>)

\* a list with a symbol of no supported type
UnsupportedRequest == (<<"2","0","7">> :> <<<<"F",":","F","D","A","X","\\","*">>, <<"X",":","Y","\\","H","2","1">>>>)

\* a literal contract listed before the wildcard of its root
LiteralFirstRequest == (<<"2","0","7">> :> <<<<"F",":","F","D","A","X","\\","H","2","1">>, <<"F",":","F","D","A","X","\\","*">>>>)

\* a source listed with no symbol
EmptyRequest == (<<"2","0","7">> :> <<>>)

\* the wildcard written after the root with no backslash before it
BareWildcardRequest == (<<"2","0","7">> :> <<<<"F",":","F","D","A","X","*">>>>)

FileMappings ==
    {FuturesRequest, OptionsRequest, UnsupportedRequest, LiteralFirstRequest, EmptyRequest,
     BareWildcardRequest}

FileLines ==
    {DCLine(<<"2","0","7">>, <<"F",":","F","D","A","X","\\","H","2","1">>),
     DCLine(<<"9","9","9">>, <<"F",":","F","D","A","X","\\","H","2","1">>),
     <<"D","N","|","2","0","7","|","F",":","F","D","A","X","\\","H","2","1","|">>,
     DCLine(<<"2","0","7">>, <<"O",":","P","R","Y","\\","A","2","1","\\","1","7",".","0">>),
     DCLine(<<"2","0","7">>, <<"O",":","P","R","Y","\\","A","2","1","\\","1","7",".","5">>),
     DCLine(<<"2","0","7">>, <<"O",":","X","Y","Z","\\","A","2","1","\\","1","7",".","0">>),
     DCLine(<<"2","0","7">>, <<"F",":","F","D","A","X","\\","H","2","1","1","5">>),
     DCLine(<<"2","0","7">>, <<"F",":","F","D","A","\\","H","2","1">>)}

InitFile ==
    /\ pc = "compile"
    /\ mapping \in FileMappings
    /\ path \in FilePaths
    /\ fault \in Faults
    /\ nfiles = 1
    /\ nopened = 0
    /\ lines_read = <<>>
    /\ pairs = <<>>
    /\ discovered = <<>>
    /\ outcome = Running
    /\ failed_at = 0
    /\ feed = FileLines
    /\ WriterIdle
    /\ TasksIdle
    /\ text = <<>>
    /\ ilp = NotCalled
    /\ mlp = NotCalled
    /\ symbol = <<>>
    /\ regex = NotCalled
    /\ found = NotSearched
    /\ symbols = <<>>
    /\ sid = <<>>
    /\ hits = <<>>

NextFile ==
    \/ CompilePatterns
    \/ OpenFile
    \/ ReadLine
    \/ ReadFault
    \/ EndOfFile

SpecFile == InitFile /\ [][NextFile]_vars

\* the lines read so far that carry a future of root FDAX for source 207
FDAXLines ==
    SelectSeq(lines_read, LAMBDA l : l \in {DCLine(<<"2","0","7">>, <<"F",":","F","D","A","X","\\","H","2","1">>), DCLine(<<"2","0","7">>, <<"F",":","F","D","A","X","\\","H","2","1","1","5">>)})

\* C15: every pair comes from a line that begins 'DC|<source id of the
\* file>|' followed by the pair's symbol, and there are no more pairs than
\* such lines; for the request F:FDAX\* and a file of source 207 the pairs
\* are ('207', 'F:FDAX\H21'), one for each line 'DC|207|F:FDAX\H21|' read (and
\* likewise for the maturity H2115), in line order, and the lines of source
\* 999 or of another message type give none.
C15_PairsComeFromLinesOfTheFilesSource ==
    pc \in {"read", "returned"} =>
        /\ \A k \in 1..Len(pairs) :
              \E i \in 1..Len(lines_read) :
                  IsPrefix(<<"D","C","|","2","0","7","|">> \o pairs[k][2], lines_read[i])
        /\ Len(pairs) <= Cardinality({i \in 1..Len(lines_read) :
                                         IsPrefix(<<"D","C","|","2","0","7","|">>, lines_read[i])})
        /\ mapping = FuturesRequest =>
              pairs = [k \in 1..Len(FDAXLines) |->
                          <<<<"2","0","7">>, InstrumentToken(FDAXLines[k])>>]

\* the file held the line of source 207 and then the line of source 999,
\* and the one pair of 207 is returned
C15_Witness ==
    /\ pc = "returned"
    /\ mapping = FuturesRequest
    /\ lines_read = <<DCLine(<<"2","0","7">>, <<"F",":","F","D","A","X","\\","H","2","1">>), DCLine(<<"9","9","9">>, <<"F",":","F","D","A","X","\\","H","2","1">>)>>
    /\ pairs = <<<<<<"2","0","7">>, <<"F",":","F","D","A","X","\\","H","2","1">>>>>>

\* the lines read so far that carry an option of root PRY
PRYLines ==
    SelectSeq(lines_read, LAMBDA l : l \in {DCLine(<<"2","0","7">>, <<"O",":","P","R","Y","\\","A","2","1","\\","1","7",".","0">>), DCLine(<<"2","0","7">>, <<"O",":","P","R","Y","\\","A","2","1","\\","1","7",".","5">>)})

\* C16: for the request O:PRY\A21\* the pairs are those of the lines read
\* that carry O:PRY\A21\17.0 or O:PRY\A21\17.5, in their order, each with the
\* source id of the file and the whole token with its strike; the line of
\* root XYZ gives none.
C16_StrikeWildcardYieldsThePRYStrikes ==
    (pc \in {"read", "returned"} /\ mapping = OptionsRequest) =>
        pairs = [k \in 1..Len(PRYLines) |->
                    <<<<"2","0","7">>, SubSeq(PRYLines[k], 8, Len(PRYLines[k]) - 1)>>]

\* a file with the line of root XYZ and the strike 17.5 of PRY
C16_Witness ==
    /\ pc = "returned"
    /\ mapping = OptionsRequest
    /\ lines_read = <<DCLine(<<"2","0","7">>, <<"O",":","X","Y","Z","\\","A","2","1","\\","1","7",".","0">>), DCLine(<<"2","0","7">>, <<"O",":","P","R","Y","\\","A","2","1","\\","1","7",".","5">>)>>
    /\ pairs = <<<<<<"2","0","7">>, <<"O",":","P","R","Y","\\","A","2","1","\\","1","7",".","5">>>>>>

\* the second '_'-delimited part of each file name of FilePaths before its
\* first '.'
FileSource ==
    [p \in FilePaths |->
        IF p = <<"x","/","C","O","R","E","R","E","F","_","6","1","2","_","2","0","2","0","1","0","2","3",".","t","x","t",".","b","z","2">>
        THEN <<"6","1","2">> ELSE <<"2","0","7">>]

\* C17: get_source_id_from_file_path gives the second '_'-delimited part of
\* the file name before its first '.', whatever the directories of the path
\* hold ('612' for COREREF_612_20201023.txt.bz2), and the source id of every
\* pair is that value.
C17_SourceIdIsReadOffTheFileName ==
    /\ get_source_id_from_file_path(path) = FileSource[path]
    /\ \A k \in 1..Len(pairs) : pairs[k][1] = FileSource[path]

\* a pair of a file whose directories hold '_' and '.'
C17_Witness ==
    /\ pc = "returned"
    /\ path = <<"d","_","6","1","2","/","v",".","3","/","C","O","R","E","R","E","F","_","2","0","7","_","2","0","2","0","1","0","2","3",".","t","x","t",".","b","z","2">>
    /\ Len(pairs) >= 1
    /\ pairs[1][1] = <<"2","0","7">>

(***************************************************************************)
(* Claims about the per-type patterns (checked under SpecCompile).         *)
(***************************************************************************)
\* the segments of the symbols of the model other than the wildcard
Literals == Segs \ {<<"*">>}

\* the symbol root\s1\...\sn
Joined(root, segs) ==
    root \o <<"\\">> \o join(<<"\\">>, segs)

\* the instrument token of the line of this run
TokenOfText == SubSeq(text, 8, Len(text) - 1)

\* the pattern found the whole token of the line
FoundWholeToken ==
    /\ found.kind = "match"
    /\ found.begin = 8
    /\ found.end = Len(text)

\* C18: create_options_regex has three shapes: (a) root\maturity\strike
\* with no '*' gives these three parts verbatim, joined by escaped backslashes;
\* (b) root\* gives the root, a generic maturity [A-Z][0-9]{2,4} and a
\* generic strike [0-9.]{1,10}; (c) root\maturity\* gives the root, the
\* maturity verbatim and the generic strike; and every pattern it returns is
\* of one of the three.  On the lines of the model (b) finds every option of
\* the root and (c) every strike of the root and maturity, whole.
C18_OptionsRegexHasThreeShapes ==
    LET root == <<"O",":","P">>
        esc == <<"\\","\\">>
        maturity == <<"[","A","-","Z","]","[","0","-","9","]","{","2",",","4","}">>
        strike == <<"[","0","-","9",".","]","{","1",",","1","0","}">>
    IN (pc # "symbol" /\ IsPrefix(<<"O",":">>, symbol)) =>
        /\ \A m, k \in Literals :
              symbol = Joined(root, <<m, k>>) =>
                  regex = Str(root \o esc \o m \o esc \o k)
        /\ symbol = Joined(root, <<<<"*">>>>) =>
              /\ regex = Str(root \o esc \o maturity \o esc \o strike)
              /\ pc = "searched" =>
                    IF IsPrefix(root \o <<"\\">>, TokenOfText)
                    THEN FoundWholeToken ELSE found.kind = "None"
        /\ \A m \in Literals :
              symbol = Joined(root, <<m, <<"*">>>>) =>
                  /\ regex = Str(root \o esc \o m \o esc \o strike)
                  /\ pc = "searched" =>
                        IF IsPrefix(root \o <<"\\">> \o m \o <<"\\">>, TokenOfText)
                        THEN FoundWholeToken ELSE found.kind = "None"
        /\ regex.kind = "str" =>
              \E m, k \in Segs :
                  regex.val \in {root \o esc \o m \o esc \o k,
                                 root \o esc \o maturity \o esc \o strike,
                                 root \o esc \o m \o esc \o strike}

\* the strike wildcard of maturity A21 found the strike 17.5
C18_Witness ==
    /\ pc = "searched"
    /\ symbol = <<"O",":","P","\\","A","2","1","\\","*">>
    /\ text = DCLine(<<"2","0","7">>, <<"O",":","P","\\","A","2","1","\\","1","7",".","5">>)
    /\ FoundWholeToken

UpperCase == CharRange("A", "Z")

\* root, then optionally '-' and up to 3 uppercase letters, then optionally
\* '@' and up to 10 alphanumerics
IsEquityText(root, t) ==
    /\ IsPrefix(root, t)
    /\ LET rest == SubSeq(t, Len(root) + 1, Len(t)) IN
       \E d \in 0..1, c \in 0..3, e \in 0..1, a \in 0..10 :
           /\ Len(rest) = d + c + e + a
           /\ d = 0 => c = 0
           /\ d = 1 => rest[1] = "-"
           /\ \A i \in (d + 1)..(d + c) : rest[i] \in UpperCase
           /\ e = 0 => a = 0
           /\ e = 1 => rest[d + c + 1] = "@"
           /\ \A i \in (d + c + e + 1)..(d + c + e + a) : rest[i] \in AlphaNumeric

\* C19: the equity pattern matches the root as a whole word, optionally
\* followed by '-' and up to 3 uppercase letters, optionally followed by '@'
\* and up to 10 alphanumerics; the matched text holds no currency letters
\* without the '-' before them and no sub-market characters without the '@'
\* before them; a root that is the beginning of a longer word is not matched.
C19_EquityPatternMatchesRootAndOptionalParts ==
    (pc = "searched" /\ symbol = <<"E",":","V">>) =>
        /\ IsEquityText(symbol, TokenOfText) => FoundWholeToken
        /\ TokenOfText = <<"E",":","V","X">> => found.kind = "None"
        /\ found.kind = "match" => IsEquityText(symbol, MatchedText(text, found))

\* C20: the fixed-income pattern matches the root as a whole word with every
\* suffix optional: the bare root before the field delimiter is matched, and
\* so are the root with '\', with '\D' and with '@' and 1 to 10 alphanumerics.
C20_FixedIncomePatternMatchesBareRoot ==
    (pc = "searched" /\ symbol = <<"B",":","N">>) =>
        /\ TokenOfText = <<"B",":","N">> => FoundWholeToken
        /\ TokenOfText = <<"B",":","N","\\","D">> => FoundWholeToken

Digits == CharRange("0", "9")

\* one uppercase letter and 2 to 4 digits
IsGenericMaturity(t) ==
    /\ Len(t) \in 3..5
    /\ t[1] \in UpperCase
    /\ \A i \in 2..Len(t) : t[i] \in Digits

\* 2 to 4 characters of the set class
IsGenericTerm(t, class) ==
    /\ Len(t) \in 2..4
    /\ \A i \in 1..Len(t) : t[i] \in class

\* what C21 says of the run for a generic term of the characters of class:
\* the literal branch gives root\term verbatim, the wildcard branch of
\* futures finds root\ and one uppercase letter with 2 to 4 digits, that of
\* forwards root\ and 2 to 4 characters of class
TwoBranchRule(class) ==
    LET fut == <<"F",":","X">>
        fwd == <<"R",":","G">>
        esc == <<"\\","\\">>
        rest(root) == SubSeq(TokenOfText, Len(root) + 2, Len(TokenOfText))
    IN pc # "symbol" =>
        /\ \A m \in Literals :
              /\ symbol = Joined(fut, <<m>>) => regex = Str(fut \o esc \o m)
              /\ symbol = Joined(fwd, <<m>>) => regex = Str(fwd \o esc \o m)
        /\ symbol = Joined(fut, <<<<"*">>>>) =>
              /\ regex = Str(fut \o esc \o <<"[","A","-","Z","]","[","0","-","9","]","{","2",",","4","}">>)
              /\ pc = "searched" =>
                    /\ (IsPrefix(fut \o <<"\\">>, TokenOfText) /\ IsGenericMaturity(rest(fut)))
                          => FoundWholeToken
                    /\ found.kind = "match" =>
                          /\ IsPrefix(fut \o <<"\\">>, MatchedText(text, found))
                          /\ IsGenericMaturity(SubSeq(MatchedText(text, found), Len(fut) + 2,
                                                      found.end - found.begin))
        /\ symbol = Joined(fwd, <<<<"*">>>>) =>
              /\ regex.kind = "str"
              /\ pc = "searched" =>
                    /\ (IsPrefix(fwd \o <<"\\">>, TokenOfText) /\ IsGenericTerm(rest(fwd), class))
                          => FoundWholeToken
                    /\ found.kind = "match" =>
                          /\ IsPrefix(fwd \o <<"\\">>, MatchedText(text, found))
                          /\ IsGenericTerm(SubSeq(MatchedText(text, found), Len(fwd) + 2,
                                                  found.end - found.begin), class)

\* C21 as stated: futures and forwards follow the same two-branch rule: a
\* symbol not ending in '*' gives root\term verbatim; root\* gives root\ and a
\* generic matcher, for futures one uppercase letter and 2 to 4 digits, for
\* forwards 2 to 4 alphanumerics.
C21_TwoBranchRuleWithAlphanumericTerms ==
    TwoBranchRule(AlphaNumeric)

\* C21 as amended: the same, the generic matcher of forwards being 2 to 4
\* characters each an uppercase letter or a digit.
C21_TwoBranchRuleWithUppercaseTerms ==
    /\ TwoBranchRule(UpperCase \cup Digits)
    /\ (pc # "symbol" /\ symbol = <<"R",":","G","\\","*">>) =>
           regex = Str(<<"R",":","G","\\","\\","[","A","-","Z","0","-","9","]","{","2",",","4","}">>)

\* the forwards wildcard found the term 5D and the run ended
C21_Witness ==
    /\ pc = "searched"
    /\ symbol = <<"R",":","G","\\","*">>
    /\ text = DCLine(<<"2","0","7">>, <<"R",":","G","\\","5","D">>)
    /\ FoundWholeToken

\* C22: in every compiled pattern each character of the symbol that is used
\* literally matches only itself: whatever the pattern of a literal contract
\* (root\maturity, root\term, root\maturity\strike) or of a bare equity,
\* fixed-income or index root finds in a line begins with the very characters
\* of the symbol.
C22_LiteralCharactersMatchOnlyThemselves ==
    (/\ pc = "searched"
     /\ found.kind = "match"
     /\ \/ IsLiteralContract(symbol)
        \/ symbol \in {<<"E",":","V">>, <<"B",":","N">>, <<"I",":","K">>}) =>
        IsPrefix(symbol, MatchedText(text, found))

(***************************************************************************)
(* config_file_writer.                                                     *)
(***************************************************************************)
\* pairs in the list handed to the writer
MaxPairs == 2

\* a field with each quote character doubled
RECURSIVE DoubledQuotes(_)
DoubledQuotes(f) ==
    IF Len(f) = 0 THEN <<>>
    ELSE (IF f[1] = "\"" THEN <<"\"", "\"">> ELSE <<f[1]>>) \o DoubledQuotes(Tail(f))

\* csv.QUOTE_MINIMAL: a field is quoted when it holds the delimiter, the
\* quote character or a line break
csv_field(f) ==
    IF \E i \in 1..Len(f) : f[i] \in {",", "\"", "\r", "\n"}
    THEN <<"\"">> \o DoubledQuotes(f) \o <<"\"">>
    ELSE f

\* csv_writer.writerow: the fields, delimited, and the line terminator
writerow(item) ==
    csv_field(item[1]) \o <<",">> \o csv_field(item[2]) \o <<"\r", "\n">>

\* open(..., 'w') were the file opened for appending
OpenedForAppending(content) == content

\* file_path.open('w', newline=''): the file is created or emptied
open_w(content) == <<>>

WriterPairs ==
    {<<<<"2","0","7">>, <<"F",":","X","\\","H","2","1">>>>,
     <<<<"2","0","7">>, <<"F",":","X","\\","Z","2","0">>>>,
     <<<<"3","6","7">>, <<"E",":","V",",","X">>>>,
     <<<<"3","6","7">>, <<"O",":","P","\\","A","2","1","\\","1","7",".","5">>>>}

\* the file of the day may exist from an earlier run
EarlierFiles == {<<>>, <<<<"s","o","u","r","c","e","I","d",",","R","T","S","s","y","m","b","o","l","\r","\n">>>>}

InitWrite ==
    /\ pc = "create"
    /\ csv_input \in ListsUpTo(WriterPairs, MaxPairs)
    /\ csv_left = csv_input
    /\ written \in EarlierFiles
    /\ summary = NoSummary
    /\ ExtractionIdle
    /\ TasksIdle
    /\ text = <<>>
    /\ ilp = NotCalled
    /\ mlp = NotCalled
    /\ symbol = <<>>
    /\ regex = NotCalled
    /\ found = NotSearched
    /\ symbols = <<>>
    /\ sid = <<>>
    /\ hits = <<>>

others == <<symbol, regex, text, found, symbols, sid, ilp, mlp, hits, extraction, tasks>>

\* lines 679-681: the directory, the path and the file opened for writing
CreateFile ==
    /\ pc = "create"
    /\ written' = open_w(written)
    /\ pc' = "header"
    /\ UNCHANGED <<csv_input, csv_left, summary, others>>

\* line 683
WriteHeader ==
    /\ pc = "header"
    /\ written' = Append(written, writerow(<<<<"s","o","u","r","c","e","I","d">>, <<"R","T","S","s","y","m","b","o","l">>>>))
    /\ pc' = "rows"
    /\ UNCHANGED <<csv_input, csv_left, summary, others>>

\* lines 684-685: the next item of the list
WriteRow ==
    /\ pc = "rows"
    /\ csv_left # <<>>
    /\ written' = Append(written, writerow(Head(csv_left)))
    /\ csv_left' = Tail(csv_left)
    /\ UNCHANGED <<pc, csv_input, summary, others>>

\* lines 686-687: the file is closed and the summary returned
ReturnSummary ==
    /\ pc = "rows"
    /\ csv_left = <<>>
    /\ summary' = [kind |-> "return", symbols |-> Len(csv_input)]
    /\ pc' = "written"
    /\ UNCHANGED <<csv_input, csv_left, written, others>>

NextWrite ==
    \/ CreateFile
    \/ WriteHeader
    \/ WriteRow
    \/ ReturnSummary

SpecWrite == InitWrite /\ [][NextWrite]_vars

\* the rows the claim expects for the pairs of WriterPairs
ExpectedRow(item) ==
    IF item[2] = <<"E",":","V",",","X">>
    THEN <<"3","6","7",",","\"","E",":","V",",","X","\"","\r","\n">>
    ELSE item[1] \o <<",">> \o item[2] \o <<"\r", "\n">>

\* C23: the file holds the header row 'sourceId,RTSsymbol' first and then
\* one row for each pair of the input, in input order, nothing dropped,
\* merged or reordered (the header alone for an empty input), and the summary
\* reports as many symbols as the input has pairs.
C23_HeaderThenOneRowPerPair ==
    pc = "written" =>
        /\ Len(written) = 1 + Len(csv_input)
        /\ written[1] = <<"s","o","u","r","c","e","I","d",",","R","T","S","s","y","m","b","o","l","\r","\n">>
        /\ \A k \in 1..Len(csv_input) : written[k + 1] = ExpectedRow(csv_input[k])
        /\ summary.kind = "return"
        /\ summary.symbols = Len(csv_input)

\* the same pair twice, written over the file of an earlier run
C23_Witness ==
    /\ pc = "written"
    /\ Len(csv_input) = 2
    /\ csv_input[1] = csv_input[2]
    /\ Len(written) = 3
    /\ written[2] = written[3]

(***************************************************************************)
(* Claims about the order of compilation and extraction (SpecFile).        *)
(***************************************************************************)
\* the source of the file has no list in the mapping, or its list holds a
\* symbol of no supported type
CannotCompile ==
    \/ FileSource[path] \notin DOMAIN mapping
    \/ HasUnsupported(mapping[FileSource[path]])

RECURSIVE ScanLines(_, _, _, _, _)
ScanLines(source_symbol_pairs, path_to_coreref_file, lines, message_level_pattern, instrument_level_pattern) ==
    IF Len(lines) = 0 THEN Return(source_symbol_pairs)
    ELSE CHOOSE after \in
             {IF r.kind = "return"
              THEN ScanLines(r.val, path_to_coreref_file, Tail(lines), message_level_pattern, instrument_level_pattern)
              ELSE r :
                 r \in {ScanLine(source_symbol_pairs, path_to_coreref_file, Head(lines), message_level_pattern, instrument_level_pattern)}} :
             TRUE

\* lines 594-607 on a file that is read without a fault
process_coreref_file(coreref_file_path, source_symbols_dictionary, lines) ==
    LET source == get_source_id_from_file_path(coreref_file_path)
        instruments == retrieve_instruments(source, source_symbols_dictionary)
    IN CHOOSE returned \in
           {IF top_level_regex.kind = "raise" THEN Escapes(top_level_regex.exc)
            ELSE IF symbol_level_regex.kind = "raise" THEN Escapes(symbol_level_regex.exc)
            ELSE ScanLines(<<>>, coreref_file_path, lines, top_level_regex.val, symbol_level_regex.val) :
               top_level_regex \in
                   {IF instruments.kind = "None" THEN Raise("TypeError")
                    ELSE create_dc_message_level_pattern(source, instruments.val)},
               symbol_level_regex \in
                   {IF instruments.kind = "None" THEN Raise("TypeError")
                    ELSE create_instrument_level_pattern(instruments.val)}} :
           TRUE

\* lines 637-641 for one file: what the file adds to the accumulator
FileResult(f, source_symbols_dictionary) ==
    IF not_in_keys(get_source_id_from_file_path(f.path), source_symbols_dictionary)
    THEN Return(<<>>)
    ELSE process_coreref_file(f.path, source_symbols_dictionary, f.lines)

\* two files of source 207, one of source 367 and one of a source that is
\* not requested
TaskFiles ==
    {[path |-> <<"a","/","C","O","R","E","R","E","F","_","2","0","7","_","2","0","2","0","1","0","1","6",".","t","x","t",".","b","z","2">>,
      lines |-> <<DCLine(<<"2","0","7">>, <<"F",":","X","\\","H","2","1">>)>>],
     [path |-> <<"a","/","C","O","R","E","R","E","F","_","2","0","7","_","2","0","2","0","1","0","1","6",".","t","x","t">>,
      lines |-> <<DCLine(<<"2","0","7">>, <<"F",":","X","\\","M","2","1">>)>>],
     [path |-> <<"a","/","C","O","R","E","R","E","F","_","3","6","7","_","2","0","2","0","1","0","1","6",".","t","x","t",".","b","z","2">>,
      lines |-> <<DCLine(<<"3","6","7">>, <<"O",":","P","\\","A","2","1","\\","1","7",".","5">>), DCLine(<<"3","6","7">>, <<"F",":","X","\\","Z","2","0">>)>>],
     [path |-> <<"a","/","C","O","R","E","R","E","F","_","9","9","9","_","2","0","2","0","1","0","1","6",".","t","x","t",".","b","z","2">>,
      lines |-> <<DCLine(<<"2","0","7">>, <<"F",":","X","\\","H","2","1">>)>>]}

InitParallel ==
    /\ pc = "tasks"
    /\ files \in ListsUpTo(TaskFiles, MaxFiles)
    /\ finished = {}
    /\ mapping = SourceMapping
    /\ path = <<>>
    /\ fault = "none"
    /\ nfiles = Len(files)
    /\ nopened = 0
    /\ lines_read = <<>>
    /\ pairs = <<>>
    /\ discovered = <<>>
    /\ outcome = Running
    /\ failed_at = 0
    /\ feed = {}
    /\ WriterIdle
    /\ text = <<>>
    /\ ilp = NotCalled
    /\ mlp = NotCalled
    /\ symbol = <<>>
    /\ regex = NotCalled
    /\ found = NotSearched
    /\ symbols = <<>>
    /\ sid = <<>>
    /\ hits = <<>>

\* a task ends and appends its whole result to the shared accumulator
CompleteTask ==
    /\ pc = "tasks"
    /\ \E i \in (1..Len(files)) \ finished :
       \E r \in {FileResult(files[i], mapping)} :
          /\ finished' = finished \cup {i}
          /\ IF r.kind = "return"
             THEN /\ discovered' = discovered \o r.val
                  /\ UNCHANGED <<pc, outcome>>
             ELSE /\ outcome' = r
                  /\ pc' = "done"
                  /\ UNCHANGED discovered
    /\ UNCHANGED <<files, text, ilp, mlp, path, fault, nfiles, nopened, lines_read, pairs,
                   failed_at, symbol, regex, found, symbols, sid, hits, mapping, feed, writer>>

\* lines 642-643, once every task has ended
SortOnce ==
    /\ pc = "tasks"
    /\ finished = 1..Len(files)
    /\ outcome' = Return(sort_by_source(discovered))
    /\ pc' = "done"
    /\ UNCHANGED <<tasks, text, ilp, mlp, path, fault, nfiles, nopened, lines_read, pairs,
                   discovered, failed_at, symbol, regex, found, symbols, sid, hits, mapping,
                   feed, writer>>

NextParallel ==
    \/ CompleteTask
    \/ SortOnce

SpecParallel == InitParallel /\ [][NextParallel]_vars

\* the pairs each file of TaskFiles yields for SourceMapping, in line order
PairsOfFile(f) ==
    CASE f.path = <<"a","/","C","O","R","E","R","E","F","_","2","0","7","_","2","0","2","0","1","0","1","6",".","t","x","t",".","b","z","2">> -> <<<<<<"2","0","7">>, <<"F",":","X","\\","H","2","1">>>>>>
      [] f.path = <<"a","/","C","O","R","E","R","E","F","_","2","0","7","_","2","0","2","0","1","0","1","6",".","t","x","t">> -> <<<<<<"2","0","7">>, <<"F",":","X","\\","M","2","1">>>>>>
      [] f.path = <<"a","/","C","O","R","E","R","E","F","_","3","6","7","_","2","0","2","0","1","0","1","6",".","t","x","t",".","b","z","2">> -> <<<<<<"3","6","7">>, <<"O",":","P","\\","A","2","1","\\","1","7",".","5">>>>, <<<<"3","6","7">>, <<"F",":","X","\\","Z","2","0">>>>>>
      [] OTHER -> <<>>

\* the per-file results one after the other in the order of the files
RECURSIVE InFileOrder(_)
InFileOrder(fs) ==
    IF Len(fs) = 0 THEN <<>> ELSE PairsOfFile(Head(fs)) \o InFileOrder(Tail(fs))

\* what the sequential batch returns for the files: the pairs of source 207
\* and then those of source 367, each group in file and line order
SequentialOutput ==
    OfSource(InFileOrder(files), <<"2","0","7">>) \o OfSource(InFileOrder(files), <<"3","6","7">>)

\* no two files of the batch have the same source id
NoSourceTwice ==
    \A i, j \in 1..Len(files) :
        i # j => get_source_id_from_file_path(files[i].path) # get_source_id_from_file_path(files[j].path)

\* C25 as stated: whatever the order in which the tasks end, the sorted list
\* is the one the sequential batch returns, also when two files have the same
\* source id.
C25_AnyCompletionOrderGivesTheSequentialOutput ==
    pc = "done" => outcome = Return(SequentialOutput)

\* C25: when no two files of the batch have the same source id, the sorted
\* list is the one the sequential batch returns whatever the order in which
\* the tasks end.
C25_CompletionOrderIsHiddenForDistinctSources ==
    (pc = "done" /\ NoSourceTwice) => outcome = Return(SequentialOutput)

\* the file of source 367 is given second but its task ends first
C25_Witness ==
    /\ pc = "done"
    /\ Len(files) = 2
    /\ files[1].path = <<"a","/","C","O","R","E","R","E","F","_","2","0","7","_","2","0","2","0","1","0","1","6",".","t","x","t",".","b","z","2">>
    /\ files[2].path = <<"a","/","C","O","R","E","R","E","F","_","3","6","7","_","2","0","2","0","1","0","1","6",".","t","x","t",".","b","z","2">>
    /\ discovered = <<<<<<"3","6","7">>, <<"O",":","P","\\","A","2","1","\\","1","7",".","5">>>>, <<<<"3","6","7">>, <<"F",":","X","\\","Z","2","0">>>>, <<<<"2","0","7">>, <<"F",":","X","\\","H","2","1">>>>>>
    /\ outcome = Return(<<<<<<"2","0","7">>, <<"F",":","X","\\","H","2","1">>>>, <<<<"3","6","7">>, <<"O",":","P","\\","A","2","1","\\","1","7",".","5">>>>, <<<<"3","6","7">>, <<"F",":","X","\\","Z","2","0">>>>>>)

(***************************************************************************)
(* Claims about the two patterns of one list together (SpecBuild).         *)
(***************************************************************************)
\* C26: with both patterns built from one symbol list, a line that the
\* message-level pattern matches is also matched by the symbol-level pattern,
\* so the second search of a selected line finds a match and scanning the
\* line adds a pair instead of failing.
C26_SelectedLineHasASymbolMatch ==
    (pc = "searched" /\ Matched(hits.mp)) =>
        /\ Matched(hits.ip)
        /\ ScanLine(<<>>, <<"C","O","R","E","R","E","F","_","2","0","7","_","2","0","2","0","1","0","2","3",".","t","x","t",".","b","z","2">>, text, mlp.val, ilp.val)
             = Return(<<<<sid, MatchedText(text, hits.ip)>>>>)

\* a list of two symbols whose second selects the line
C26_Witness ==
    /\ pc = "searched"
    /\ Len(symbols) = 2
    /\ Matched(hits.mp)
    /\ ~Matched(hits.each[1])
    /\ Matched(hits.each[2])
    /\ Matched(hits.ip)

\* C27: the text emitted for a selected line is the text the symbol group of
\* the message-level pattern matched right after 'DC|<source id>|': the
\* second, unanchored search finds its match at that place, of that extent
\* and by the same alternative.
C27_EmittedTextIsTheGroupOfTheSelection ==
    (pc = "searched" /\ Matched(hits.mp)) =>
        LET prefix == <<"D","C","|">> \o sid \o <<"|">> IN
        /\ hits.mp.begin = 1
        /\ IsPrefix(prefix, text)
        /\ MatchedText(text, hits.ip) = SubSeq(text, Len(prefix) + 1, hits.mp.end - 1)
        /\ hits.ip.begin = Len(prefix) + 1
        /\ hits.ip.end = hits.mp.end
        /\ hits.ip.alt = hits.mp.alt

(***************************************************************************)
(* Claims about the symbols one file yields (SpecFile).                    *)
(***************************************************************************)
\* C28: every symbol emitted for a futures, forward or options request is
\* the complete instrument token of a line of the file, the whole text
\* between 'DC|<source id>|' and the next '|', never a proper prefix of it,
\* whatever the order of the literal and wildcard symbols of the list.
C28_EmittedSymbolIsTheWholeToken ==
    mapping \in {FuturesRequest, OptionsRequest, LiteralFirstRequest} =>
    \A k \in 1..Len(pairs) :
        \E n \in 1..Len(lines_read) :
            lines_read[n] = DCLine(FileSource[path], pairs[k][2])

\* C29: for a source that the mapping lists with an empty symbol list the
\* file yields no pair, whatever DC lines it holds.
C29_EmptyListYieldsNoPair ==
    mapping = EmptyRequest => pairs = <<>>

\* C30: for the futures symbol F:FDAX* (the wildcard with no backslash before
\* it) the file yields, in line order, one pair for every line that carries a
\* maturity of the root F:FDAX for the source, and none for a contract of
\* another root, shorter or longer.
C30_BareWildcardYieldsTheRootsMaturities ==
    mapping = BareWildcardRequest =>
        pairs = [k \in 1..Len(FDAXLines) |->
                    <<<<"2","0","7">>, InstrumentToken(FDAXLines[k])>>]

====
